---------------------------- MODULE Spec2Model ----------------------------
(***************************************************************************)
(* ViewPods: the device state machine (viewpods/state_manager.py), the     *)
(* classic-presence poller (viewpods/bt_device_checker.py), the shutdown   *)
(* sequence (viewpods/main.py) and the advertisement parser                *)
(* (viewpods/packet_parser.py).                                            *)
(*                                                                         *)
(* Time is time.monotonic() counted in units of 0.5 s, so that             *)
(* DEBOUNCE_INTERVAL (0.5 s) is 1 and DISCONNECT_TIMEOUT (30.0 s) is 60.   *)
(***************************************************************************)
EXTENDS Integers, Sequences, FiniteSets, TLC

VARIABLES
    state,             \* StateManager._state (a DeviceState snapshot)
    history,           \* StateManager._history, deque(maxlen=5)
    last_notify_time,  \* StateManager._last_notify_time
    observers,         \* StateManager._observers (list of callbacks)
    running,           \* StateManager._running
    tickerPc,          \* position of the StateTimeout thread in _timeout_loop
    was_connected,     \* BtDeviceChecker._was_connected
    checker_running,   \* BtDeviceChecker._running
    pollerPc,          \* position of the BtDeviceChecker thread in _poll_loop
    scanner_running,   \* BLEScanner._running
    now,               \* time.monotonic()
    advances,          \* number of times the clock has been advanced
    inbox,             \* per observer: the last snapshot its callback received
    lastOp,            \* the last operation performed and whether it dispatched
    adapterLost,       \* set_bluetooth_unavailable has been called at some time
    thr,               \* per thread: its position inside a StateManager call
                       \* and the locals of that call
    parser             \* the call of parse_manufacturer_data in progress: its
                       \* arguments, position, locals and return value

vars == <<state, history, last_notify_time, observers, running, tickerPc,
          was_connected, checker_running, pollerPc, scanner_running, now,
          advances, inbox, lastOp, adapterLost, thr, parser>>

-----------------------------------------------------------------------------
(* Program constants *)

DISCONNECT_TIMEOUT == 60
DEBOUNCE_INTERVAL == 1
HISTORY_MAXLEN == 5

\* packet_parser: 0x004C, 0x07, 0xF, the minimal payload length and the
\* two record lengths 0x19 and 0x11
APPLE_COMPANY_ID == 76
PROXIMITY_PAIRING_TYPE == 7
BATTERY_UNAVAILABLE == 15
MIN_DATA_LENGTH == 15
PAIRING_LENGTHS == {25, 17}

(* Bounds of the model: how often the clock is advanced in a behaviour of *)
(* the whole program (Spec) and of the state machine alone (SpecMachine) *)

MaxAdvances == 1
MaxMachineAdvances == 3

(* How many TLV entries a buffer handed to the parser is built from *)

MaxEntries == 5

\* Optional values: None is the empty sequence, a present value x is <<x>>
None == <<>>
Some(x) == <<x>>
TheValue(o) == o[1]

DISCONNECTED == "DISCONNECTED"
CONNECTED == "CONNECTED"

\* AirPodsData values (packet_parser.AirPodsData); batteries are optional
AirPodsData(l, r, c, lc, rc, cc, m, s) ==
    [left_battery |-> l, right_battery |-> r, case_battery |-> c,
     left_charging |-> lc, right_charging |-> rc, case_charging |-> cc,
     model |-> m, raw_status |-> s]

\* The readings the scanner may push in this model
Readings ==
    { AirPodsData(Some(50), Some(60), Some(70), FALSE, FALSE, FALSE, "AirPods Pro 2", 0),
      AirPodsData(Some(60), None, Some(70), TRUE, FALSE, FALSE, "AirPods Pro", 1) }

\* The readings pushed where smoothing is at issue: three left levels, a
\* right level that may be missing throughout, a case level that may be too
SmoothReadings ==
    Readings \cup
    { AirPodsData(Some(70), None, None, TRUE, TRUE, FALSE, "AirPods Pro", 1) }

\* The reading pushed where the history's content is not at issue
OneReading ==
    { AirPodsData(Some(50), Some(60), Some(70), FALSE, FALSE, FALSE, "AirPods Pro 2", 0) }

\* Device names _check_airpods_connected may return
Names == {"AirPods Pro"}

\* Callbacks that may be registered as observers
Observers == {"ui", "aux"}

\* main() registers one observer, window.update_state
MainObservers == {"ui"}

\* Callbacks that raise an Exception whenever they are called
Raising == {"aux"}

\* Clock increments explored: one debounce interval, exactly the silence
\* timeout, and just past it (events at the same instant need no increment)
Steps == {DEBOUNCE_INTERVAL, DISCONNECT_TIMEOUT, DISCONNECT_TIMEOUT + DEBOUNCE_INTERVAL}

\* Clock increments explored where the threads are interleaved or the
\* readings differ: inside the timeout and past it
CoarseSteps == {DEBOUNCE_INTERVAL, DISCONNECT_TIMEOUT + DEBOUNCE_INTERVAL}

DeviceState(conn, a, ls, bt, name) ==
    [connection |-> conn, airpods |-> a, last_seen |-> ls,
     bluetooth_available |-> bt, classic_device_name |-> name]

-----------------------------------------------------------------------------
(* History and smoothing *)

\* append on a deque without maxlen
DequeAppendUnbounded(h, d) == Append(h, d)

\* deque(maxlen=5).append: the oldest entry is dropped when full
DequeAppend(h, d) ==
    IF Len(h) < HISTORY_MAXLEN THEN Append(h, d) ELSE Append(Tail(h), d)

\* [getattr(d, attr) for d in self._history if getattr(d, attr) is not None]
RECURSIVE NonNullValues(_, _)
NonNullValues(h, attr) ==
    IF h = <<>> THEN <<>>
    ELSE LET v == Head(h)[attr]
             rest == NonNullValues(Tail(h), attr)
         IN  IF v = None THEN rest ELSE <<v>> \o rest

CountOf(values, v) == Cardinality({i \in DOMAIN values : values[i] = v})

\* no vote: the value of the newest entry
MostCommonLatest(values) == values[Len(values)]

\* the vote with ties going to the value that is first to reach the highest
\* count, which is the one whose last occurrence is earliest
MostCommonFirstToReach(values) ==
    LET best == CHOOSE i \in DOMAIN values :
                    /\ \A j \in DOMAIN values :
                           CountOf(values, values[j]) <= CountOf(values, values[i])
                    /\ \A j \in DOMAIN values : (j > i) => values[j] # values[i]
                    /\ \A j \in DOMAIN values :
                           (/\ j < i
                            /\ values[j] # values[i]
                            /\ CountOf(values, values[j]) = CountOf(values, values[i]))
                           => \E k \in DOMAIN values : k > i /\ values[k] = values[j]
    IN  values[best]

\* Counter(values).most_common(1)[0][0]: the entry with the highest count;
\* among equal counts the one inserted first into the Counter, i.e. the one
\* whose first occurrence in values is earliest
MostCommon(values) ==
    LET best == CHOOSE i \in DOMAIN values :
                    /\ \A j \in DOMAIN values :
                           CountOf(values, values[j]) <= CountOf(values, values[i])
                    /\ \A j \in DOMAIN values :
                           (j < i) => CountOf(values, values[j]) < CountOf(values, values[i])
    IN  values[best]

\* get_mode for an optional (battery) field
GetModeOpt(h, latest, attr) ==
    LET values == NonNullValues(h, attr)
    IN  IF values = <<>> THEN latest[attr] ELSE MostCommon(values)

\* get_mode for a boolean (charging) field: booleans are never None
GetModeBool(h, latest, attr) ==
    LET values == [i \in DOMAIN h |-> h[i][attr]]
    IN  IF values = <<>> THEN latest[attr] ELSE MostCommon(values)

\* the smoothing with the vote extended to model and raw_status
ComputeSmoothedDataAllVoted(h, latest) ==
    IF h = <<>> THEN latest
    ELSE AirPodsData(GetModeOpt(h, latest, "left_battery"),
                     GetModeOpt(h, latest, "right_battery"),
                     GetModeOpt(h, latest, "case_battery"),
                     GetModeBool(h, latest, "left_charging"),
                     GetModeBool(h, latest, "right_charging"),
                     GetModeBool(h, latest, "case_charging"),
                     GetModeBool(h, latest, "model"),
                     GetModeBool(h, latest, "raw_status"))

\* StateManager._compute_smoothed_data
ComputeSmoothedData(h, latest) ==
    IF h = <<>> THEN latest
    ELSE AirPodsData(GetModeOpt(h, latest, "left_battery"),
                     GetModeOpt(h, latest, "right_battery"),
                     GetModeOpt(h, latest, "case_battery"),
                     GetModeBool(h, latest, "left_charging"),
                     GetModeBool(h, latest, "right_charging"),
                     GetModeBool(h, latest, "case_charging"),
                     latest.model, latest.raw_status)

-----------------------------------------------------------------------------
(* The states the mutating methods of StateManager install *)

\* an update that stores the reading as received, unsmoothed
AirpodsStateRaw(st, h, data, t) ==
    DeviceState(CONNECTED, Some(data), t, TRUE, st.classic_device_name)

\* update_from_airpods: the state built from the history that already holds
\* the new reading
AirpodsState(st, h, data, t) ==
    DeviceState(CONNECTED, Some(ComputeSmoothedData(h, data)), t, TRUE,
                st.classic_device_name)

\* mark_disconnected installing the state it found
DisconnectedStateAsFound(st) == st

\* a disconnect that keeps the reading
DisconnectedStateKeepsReading(st) ==
    DeviceState(DISCONNECTED, st.airpods, st.last_seen, st.bluetooth_available, None)

\* mark_disconnected, and the second branch of mark_classic_disconnected
DisconnectedState(st) ==
    DeviceState(DISCONNECTED, None, st.last_seen, st.bluetooth_available, None)

\* mark_connected_classic
ClassicConnectedState(st, name, t) ==
    DeviceState(CONNECTED, st.airpods, t, TRUE, Some(name))

\* the first branch with last_seen left to its default, 0.0
ClassicNameClearedStateNoLastSeen(st) ==
    DeviceState(st.connection, st.airpods, 0, st.bluetooth_available, None)

\* mark_classic_disconnected, first branch: only the classic name is cleared
ClassicNameClearedState(st) ==
    DeviceState(st.connection, st.airpods, st.last_seen, st.bluetooth_available, None)

\* set_bluetooth_unavailable with bluetooth_available left to its default
UnavailableStateDefaultFlag ==
    DeviceState(DISCONNECTED, None, 0, TRUE, None)

\* set_bluetooth_unavailable
UnavailableState ==
    DeviceState(DISCONNECTED, None, 0, FALSE, None)

\* set_bluetooth_available with last_seen left to its default, 0.0
AvailableStateNoLastSeen(st) ==
    DeviceState(st.connection, st.airpods, 0, TRUE, None)

\* set_bluetooth_available: classic_device_name is not passed to DeviceState()
\* and takes its default, None
AvailableState(st) ==
    DeviceState(st.connection, st.airpods, st.last_seen, TRUE, None)

\* mark_disconnected without its early return
NeverAlreadyDisconnected(st) == FALSE

\* mark_disconnected returns early, without a new state or a notification
AlreadyDisconnected(st) ==
    st.connection = DISCONNECTED /\ st.classic_device_name = None

\* mark_connected_classic without its early return
NeverHasBleData(st) == FALSE

\* mark_connected_classic returns early: BLE data is not overwritten
HasBleData(st) ==
    st.connection = CONNECTED /\ st.airpods # None

\* the freshness test with <= in place of <
BleDataFreshInclusive(st, t) ==
    /\ st.airpods # None
    /\ st.last_seen > 0
    /\ t - st.last_seen <= DISCONNECT_TIMEOUT

\* mark_classic_disconnected: fresh BLE data is held
BleDataFresh(st, t) ==
    /\ st.airpods # None
    /\ st.last_seen > 0
    /\ t - st.last_seen < DISCONNECT_TIMEOUT

\* _timeout_loop: the condition under which needs_disconnect is set
NeedsDisconnect(st, t) ==
    /\ st.connection = CONNECTED
    /\ st.last_seen > 0
    /\ t - st.last_seen > DISCONNECT_TIMEOUT

-----------------------------------------------------------------------------
(* Observer dispatch *)

\* the debounce test without the interval: only a clock reading older than
\* the last dispatch is rejected
DebouncedNoInterval(t, last) == t - last < 0

\* _notify_observers: the debounce test, made with the caller's reading of the clock
Debounced(t, last) == t - last < DEBOUNCE_INTERVAL

\* the loop "for cb in observers: try: cb(snapshot) except Exception: log":
\* a callback that returns has taken the snapshot; one that raises has not,
\* and the loop goes on to the next
RECURSIVE DeliverLoop(_, _, _)
DeliverLoop(box, obs, snapshot) ==
    IF obs = <<>>
    THEN box
    ELSE IF Head(obs) \in Raising
         THEN DeliverLoop(box, Tail(obs), snapshot)
         ELSE DeliverLoop([box EXCEPT ![Head(obs)] = Some(snapshot)],
                          Tail(obs), snapshot)

\* the loop without its try/except: the first exception ends it
RECURSIVE DeliverLoopUncaught(_, _, _)
DeliverLoopUncaught(box, obs, snapshot) ==
    IF obs = <<>>
    THEN box
    ELSE IF Head(obs) \in Raising
         THEN box
         ELSE DeliverLoopUncaught([box EXCEPT ![Head(obs)] = Some(snapshot)],
                                  Tail(obs), snapshot)

\* dispatch without exception handling
DeliverUncaught(box, obs, snapshot) == DeliverLoopUncaught(box, obs, snapshot)

\* the callbacks of the registered observers each receive the snapshot
Deliver(box, obs, snapshot) == DeliverLoop(box, obs, snapshot)

\* lastOp: the method last run, whether its dispatch was accepted by the
\* debounce test, and the observers whose callbacks it invoked
Op(op, dispatched, to) == [op |-> op, dispatched |-> dispatched, to |-> to]

\* _notify_observers, run to completion by the thread that installed st
NotifyObservers(op, st) ==
    IF Debounced(now, last_notify_time)
    THEN /\ UNCHANGED <<last_notify_time, inbox>>
         /\ lastOp' = Op(op, FALSE, <<>>)
    ELSE /\ last_notify_time' = now
         /\ inbox' = Deliver(inbox, observers, st)
         /\ lastOp' = Op(op, TRUE, observers)

\* a method that returns without calling _notify_observers
NoNotify(op) ==
    /\ UNCHANGED <<last_notify_time, inbox>>
    /\ lastOp' = Op(op, FALSE, <<>>)

-----------------------------------------------------------------------------
(* StateManager methods, each run to completion *)

\* update_from_airpods(data)
UpdateFromAirpods(data) ==
    /\ history' = DequeAppend(history, data)
    /\ state' = AirpodsState(state, history', data, now)
    /\ NotifyObservers("update_from_airpods", state')

\* mark_disconnected()
MarkDisconnected(op) ==
    IF AlreadyDisconnected(state)
    THEN /\ UNCHANGED state
         /\ NoNotify(op)
    ELSE /\ state' = DisconnectedState(state)
         /\ NotifyObservers(op, state')

\* mark_connected_classic(device_name)
MarkConnectedClassic(name) ==
    IF HasBleData(state)
    THEN /\ UNCHANGED state
         /\ NoNotify("mark_connected_classic")
    ELSE /\ state' = ClassicConnectedState(state, name, now)
         /\ NotifyObservers("mark_connected_classic", state')

\* mark_classic_disconnected()
MarkClassicDisconnected ==
    IF BleDataFresh(state, now)
    THEN /\ state' = ClassicNameClearedState(state)
         /\ NoNotify("mark_classic_disconnected")
    ELSE /\ state' = DisconnectedState(state)
         /\ NotifyObservers("mark_classic_disconnected", state')

\* set_bluetooth_unavailable()
SetBluetoothUnavailable ==
    /\ state' = UnavailableState
    /\ NotifyObservers("set_bluetooth_unavailable", state')

\* set_bluetooth_available()
SetBluetoothAvailable ==
    /\ state' = AvailableState(state)
    /\ NoNotify("set_bluetooth_available")

-----------------------------------------------------------------------------
(* The threads that call into the StateManager *)

smVars == <<state, history, last_notify_time, inbox, lastOp>>
procVars == <<running, tickerPc, was_connected, checker_running, pollerPc,
              scanner_running, thr>>

\* BLEScanner._on_advertisement with a payload that parses to `data`
Advertisement(data) ==
    /\ scanner_running
    /\ UpdateFromAirpods(data)
    /\ UNCHANGED <<observers, procVars, now, advances, adapterLost, parser>>

\* the adapter error with the history cleared along with the state
AdapterErrorClearsHistory ==
    /\ scanner_running
    /\ SetBluetoothUnavailable
    /\ adapterLost' = TRUE
    /\ history' = <<>>
    /\ UNCHANGED <<observers, procVars, now, advances, parser>>

\* BLEScanner._scan / _run_loop: an adapter error is caught
AdapterError ==
    /\ scanner_running
    /\ SetBluetoothUnavailable
    /\ adapterLost' = TRUE
    /\ UNCHANGED <<history, observers, procVars, now, advances, parser>>

\* BLEScanner._scan: the scan loop (re)starts a scan
ScanStart ==
    /\ scanner_running
    /\ SetBluetoothAvailable
    /\ UNCHANGED <<history, observers, procVars, now, advances, adapterLost,
                   parser>>

\* BtDeviceChecker._poll_loop: the loop test, then _check_airpods_connected starts
PollBegin ==
    /\ pollerPc = "idle"
    /\ thr["poller"].pc = "idle"
    /\ pollerPc' = IF checker_running THEN "polling" ELSE "done"
    /\ UNCHANGED <<smVars, observers, running, tickerPc, was_connected,
                   checker_running, scanner_running, now, advances, adapterLost,
                   thr, parser>>

\* BtDeviceChecker._poll_loop: _check_airpods_connected returned `name`
\* (None: no device); a callback is made on a change of presence only
PollResult(name) ==
    /\ pollerPc = "polling"
    /\ pollerPc' = "idle"
    /\ IF name # None /\ ~was_connected
       THEN /\ was_connected' = TRUE
            /\ MarkConnectedClassic(TheValue(name))
       ELSE IF name = None /\ was_connected
       THEN /\ was_connected' = FALSE
            /\ MarkClassicDisconnected
       ELSE UNCHANGED <<was_connected, state, last_notify_time, inbox, lastOp>>
    /\ UNCHANGED <<history, observers, running, tickerPc, checker_running,
                   scanner_running, now, advances, adapterLost, thr, parser>>

\* a poll whose callback raises, with the flag assigned after the call:
\* the exception leaves _was_connected as it was
PollResultRaisedFlagUnset(name) ==
    /\ pollerPc = "polling"
    /\ pollerPc' = "idle"
    /\ \/ /\ name # None /\ ~was_connected
          /\ lastOp' = Op("on_connected_raised", FALSE, <<>>)
       \/ /\ name = None /\ was_connected
          /\ lastOp' = Op("on_disconnected_raised", FALSE, <<>>)
    /\ UNCHANGED <<state, history, last_notify_time, inbox, was_connected,
                   observers, running, tickerPc, checker_running,
                   scanner_running, now, advances, adapterLost, thr, parser>>

\* BtDeviceChecker._poll_loop: presence changed and the callback raised
\* before it changed anything; _was_connected was assigned before the call,
\* and the exception is logged by the loop
PollResultRaised(name) ==
    /\ pollerPc = "polling"
    /\ pollerPc' = "idle"
    /\ \/ /\ name # None /\ ~was_connected
          /\ was_connected' = TRUE
          /\ lastOp' = Op("on_connected_raised", FALSE, <<>>)
       \/ /\ name = None /\ was_connected
          /\ was_connected' = FALSE
          /\ lastOp' = Op("on_disconnected_raised", FALSE, <<>>)
    /\ UNCHANGED <<state, history, last_notify_time, inbox, observers, running,
                   tickerPc, checker_running, scanner_running, now, advances,
                   adapterLost, thr, parser>>

\* BtDeviceChecker._poll_loop: _check_airpods_connected itself raised (with
\* no PowerShell, subprocess.run raises FileNotFoundError and the clause
\* "except (json.JSONDecodeError, ...)" reads the local name json before
\* "import json" has bound it); the loop logs it and sleeps
PollCheckRaised ==
    /\ pollerPc = "polling"
    /\ pollerPc' = "idle"
    /\ UNCHANGED <<smVars, observers, running, tickerPc, was_connected,
                   checker_running, scanner_running, now, advances, adapterLost,
                   thr, parser>>

\* the loop test of a ticker that does not look at _running
TimeoutLoopTestIgnoresStop ==
    /\ tickerPc = "test"
    /\ thr["ticker"].pc = "idle"
    /\ tickerPc' = "sleep"
    /\ UNCHANGED <<smVars, observers, running, was_connected, checker_running,
                   pollerPc, scanner_running, now, advances, adapterLost, thr,
                   parser>>

\* StateManager._timeout_loop: the test of `while self._running`
TimeoutLoopTest ==
    /\ tickerPc = "test"
    /\ thr["ticker"].pc = "idle"
    /\ tickerPc' = IF running THEN "sleep" ELSE "done"
    /\ UNCHANGED <<smVars, observers, running, was_connected, checker_running,
                   pollerPc, scanner_running, now, advances, adapterLost, thr,
                   parser>>

\* StateManager._timeout_loop: the sleep ends, the silence check is made and
\* mark_disconnected is called when it asks for a disconnect
TimeoutCheck ==
    /\ tickerPc = "sleep"
    /\ tickerPc' = "test"
    /\ IF NeedsDisconnect(state, now)
       THEN MarkDisconnected("timeout")
       ELSE /\ UNCHANGED state
            /\ NoNotify("timeout_check")
    /\ UNCHANGED <<history, observers, running, was_connected, checker_running,
                   pollerPc, scanner_running, now, advances, adapterLost, thr,
                   parser>>

\* main._shutdown: bt_checker.stop(), scanner.stop(), state_manager.stop();
\* each clears a _running flag and joins its thread with a timeout
Shutdown ==
    /\ running
    /\ checker_running' = FALSE
    /\ scanner_running' = FALSE
    /\ running' = FALSE
    /\ lastOp' = Op("stop", FALSE, <<>>)
    /\ UNCHANGED <<state, history, last_notify_time, inbox, observers, tickerPc,
                   was_connected, pollerPc, now, advances, adapterLost, thr,
                   parser>>

IsRegistered(obs, o) == \E i \in DOMAIN obs : obs[i] = o

\* list.remove: the first occurrence is removed
RemoveFirst(obs, o) ==
    LET k == CHOOSE i \in DOMAIN obs :
                 obs[i] = o /\ \A j \in DOMAIN obs : j < i => obs[j] # o
    IN  [i \in 1..(Len(obs) - 1) |-> IF i < k THEN obs[i] ELSE obs[i + 1]]

\* StateManager.add_observer (each callback is registered once)
AddObserver(o) ==
    /\ ~IsRegistered(observers, o)
    /\ observers' = Append(observers, o)
    /\ UNCHANGED <<smVars, procVars, now, advances, adapterLost, parser>>

\* StateManager.remove_observer
RemoveObserver(o) ==
    /\ IsRegistered(observers, o)
    /\ observers' = RemoveFirst(observers, o)
    /\ UNCHANGED <<smVars, procVars, now, advances, adapterLost, parser>>

\* time.monotonic() moves on
Advance(d, limit) ==
    /\ advances < limit
    /\ now' = now + d
    /\ advances' = advances + 1
    /\ UNCHANGED <<smVars, observers, procVars, adapterLost, parser>>

-----------------------------------------------------------------------------

InitialState == DeviceState(DISCONNECTED, None, 0, TRUE, None)

\* The threads that call into the StateManager: the scanner's event loop,
\* the classic poller and the timeout ticker
Threads == {"ble", "poller", "ticker"}

\* a thread that is not inside a StateManager call; op is the call it
\* made last when that call returned without a notification
IdleThread ==
    [pc |-> "idle", op |-> "", now |-> 0, installed |-> None,
     snapshot |-> None, observers |-> <<>>]

-----------------------------------------------------------------------------
(* The same methods, one step per critical section.  A mutating method   *)
(* holds the lock while it installs the state, releases it, and then     *)
(* calls _notify_observers, which reads the clock, takes the lock again  *)
(* for the debounce test and the snapshot, and releases it before the    *)
(* callbacks run.  lastOp, the record of the run-to-completion methods,   *)
(* is not kept here: thr holds what each call is doing.                   *)

threadFrame == <<running, checker_running, scanner_running, advances, now>>

\* the thread leaves the `with self._lock` block of a mutating method and
\* is about to call _notify_observers
Installed(t, op, st) ==
    thr' = [thr EXCEPT ![t] = [IdleThread EXCEPT !.pc = "notify", !.op = op,
                                                 !.installed = Some(st)]]

\* update_from_airpods, lines 109-119
LockedUpdateFromAirpods(data) ==
    /\ scanner_running
    /\ thr["ble"].pc = "idle"
    /\ history' = DequeAppend(history, data)
    /\ state' = AirpodsState(state, history', data, now)
    /\ Installed("ble", "update_from_airpods", state')
    /\ UNCHANGED <<last_notify_time, inbox, lastOp, observers, tickerPc,
                   was_connected, pollerPc, adapterLost, threadFrame, parser>>

\* set_bluetooth_unavailable, lines 204-210
LockedSetBluetoothUnavailable ==
    /\ scanner_running
    /\ thr["ble"].pc = "idle"
    /\ state' = UnavailableState
    /\ adapterLost' = TRUE
    /\ Installed("ble", "set_bluetooth_unavailable", state')
    /\ UNCHANGED <<history, last_notify_time, inbox, lastOp, observers, tickerPc,
                   was_connected, pollerPc, threadFrame, parser>>

\* set_bluetooth_available, lines 215-222: no call of _notify_observers
LockedSetBluetoothAvailable ==
    /\ scanner_running
    /\ thr["ble"].pc = "idle"
    /\ state' = AvailableState(state)
    /\ UNCHANGED lastOp
    /\ UNCHANGED <<history, last_notify_time, inbox, observers, tickerPc,
                   was_connected, pollerPc, adapterLost, thr, threadFrame,
                   parser>>

\* _poll_loop with the locked part of mark_connected_classic (lines 164-174)
\* or of mark_classic_disconnected (lines 179-199)
LockedPollResult(name) ==
    /\ pollerPc = "polling"
    /\ thr["poller"].pc = "idle"
    /\ pollerPc' = "idle"
    /\ IF name # None /\ ~was_connected
       THEN /\ was_connected' = TRUE
            /\ IF HasBleData(state)
               THEN /\ UNCHANGED lastOp
                    /\ UNCHANGED <<state, thr>>
               ELSE /\ state' = ClassicConnectedState(state, TheValue(name), now)
                    /\ Installed("poller", "mark_connected_classic", state')
                    /\ UNCHANGED lastOp
       ELSE IF name = None /\ was_connected
       THEN /\ was_connected' = FALSE
            /\ IF BleDataFresh(state, now)
               THEN /\ state' = ClassicNameClearedState(state)
                    /\ UNCHANGED lastOp
                    /\ UNCHANGED thr
               ELSE /\ state' = DisconnectedState(state)
                    /\ Installed("poller", "mark_classic_disconnected", state')
                    /\ UNCHANGED lastOp
       ELSE UNCHANGED <<was_connected, state, lastOp, thr>>
    /\ UNCHANGED <<history, last_notify_time, inbox, observers, tickerPc,
                   adapterLost, threadFrame, parser>>

\* _timeout_loop, lines 245-254: the sleep ends and needs_disconnect is
\* computed under the lock
LockedTimeoutCheck ==
    /\ tickerPc = "sleep"
    /\ tickerPc' = IF NeedsDisconnect(state, now) THEN "disconnect" ELSE "test"
    /\ UNCHANGED <<smVars, observers, was_connected, pollerPc, adapterLost, thr,
                   threadFrame, parser>>

\* _timeout_loop, lines 256-258, with the locked part of mark_disconnected
\* (lines 147-159)
LockedMarkDisconnected ==
    /\ tickerPc = "disconnect"
    /\ tickerPc' = "test"
    /\ IF AlreadyDisconnected(state)
       THEN /\ UNCHANGED lastOp
            /\ UNCHANGED state
            /\ thr' = [thr EXCEPT !["ticker"] =
                           [IdleThread EXCEPT !.op = "timeout_returned"]]
       ELSE /\ state' = DisconnectedState(state)
            /\ Installed("ticker", "timeout", state')
            /\ UNCHANGED lastOp
    /\ UNCHANGED <<history, last_notify_time, inbox, observers, was_connected,
                   pollerPc, adapterLost, threadFrame, parser>>

\* _notify_observers, line 264: now = time.monotonic(), before the lock
NotifyReadClock(t) ==
    /\ thr[t].pc = "notify"
    /\ thr' = [thr EXCEPT ![t].pc = "locked", ![t].now = now]
    /\ UNCHANGED <<smVars, observers, tickerPc, was_connected, pollerPc,
                   adapterLost, threadFrame, parser>>

\* _notify_observers, lines 265-271: the debounce test and the snapshot
NotifyLocked(t) ==
    /\ thr[t].pc = "locked"
    /\ IF Debounced(thr[t].now, last_notify_time)
       THEN /\ thr' = [thr EXCEPT ![t] = IdleThread]
            /\ UNCHANGED lastOp
            /\ UNCHANGED last_notify_time
       ELSE /\ last_notify_time' = thr[t].now
            /\ thr' = [thr EXCEPT ![t].pc = "deliver",
                                  ![t].snapshot = Some(state),
                                  ![t].observers = observers]
            /\ UNCHANGED lastOp
    /\ UNCHANGED <<state, history, inbox, observers, tickerPc, was_connected,
                   pollerPc, adapterLost, threadFrame, parser>>

\* _notify_observers, lines 273-277: the callbacks run
NotifyDeliver(t) ==
    /\ thr[t].pc = "deliver"
    /\ inbox' = Deliver(inbox, thr[t].observers, TheValue(thr[t].snapshot))
    /\ UNCHANGED lastOp
    /\ thr' = [thr EXCEPT ![t] = IdleThread]
    /\ UNCHANGED <<state, history, last_notify_time, observers, tickerPc,
                   was_connected, pollerPc, adapterLost, threadFrame, parser>>

-----------------------------------------------------------------------------

-----------------------------------------------------------------------------
(* packet_parser.py *)

\* KNOWN_APPLE_MODELS: 0x1420, 0x1520, 0x2002, 0x200F, 0x200E, 0x2014,
\* 0x2024, 0x2013, 0x6465, 0x4abf
KNOWN_APPLE_MODELS ==
    (5152 :> "AirPods Pro 2") @@ (5408 :> "AirPods Pro 2 (USB-C)") @@
    (8194 :> "AirPods") @@ (8207 :> "AirPods 2") @@ (8206 :> "AirPods Pro") @@
    (8212 :> "AirPods 3") @@ (8228 :> "AirPods Pro 2") @@
    (8211 :> "AirPods Max") @@ (25701 :> "AirPods Pro") @@
    (19135 :> "AirPods Pro")

\* data[k] of a bytes object: indices start at 0
ByteAt(data, k) == data[k + 1]

\* the high nibble taken without the shift
HighNibbleUnshifted(b) == b % 16

\* (b >> 4) & 0x0F and b & 0x0F
HighNibble(b) == (b \div 16) % 16
LowNibble(b) == b % 16

\* bool(v & mask) for a mask of one bit
BitSet(v, mask) == (v \div mask) % 2 = 1

\* the conversion without the test for values above 10
NibbleToPercentOnlyF(nibble) ==
    IF nibble = BATTERY_UNAVAILABLE THEN None ELSE Some(nibble * 10)

\* _nibble_to_percent
NibbleToPercent(nibble) ==
    IF nibble = BATTERY_UNAVAILABLE \/ nibble > 10 THEN None ELSE Some(nibble * 10)

\* the lookup with unknown ids rejected
ModelNameKnownOnly(model_id) ==
    IF model_id \in DOMAIN KNOWN_APPLE_MODELS
    THEN Some(KNOWN_APPLE_MODELS[model_id])
    ELSE None

\* KNOWN_APPLE_MODELS.get(model_id) with the fallback of lines 145-147; the
\* result is optional so that a decoder that rejects can be expressed
ModelName(model_id) ==
    IF model_id \in DOMAIN KNOWN_APPLE_MODELS
    THEN Some(KNOWN_APPLE_MODELS[model_id])
    ELSE Some("AirPods")

\* the charging flags read without regard to the flipped bit
LeftChargingUnflipped(charge_flags, flipped) == BitSet(charge_flags, 2)

\* left_charging and right_charging, lines 168-169
LeftCharging(charge_flags, flipped) ==
    IF ~flipped THEN BitSet(charge_flags, 2) ELSE BitSet(charge_flags, 1)

\* right_charging read from the bits of left_charging
RightChargingLeftBits(charge_flags, flipped) ==
    IF ~flipped THEN BitSet(charge_flags, 2) ELSE BitSet(charge_flags, 1)

RightCharging(charge_flags, flipped) ==
    IF ~flipped THEN BitSet(charge_flags, 1) ELSE BitSet(charge_flags, 2)

\* _decode_proximity_pairing reads data[base + 5] at most: IndexError
DecodeRaises(data, offset) == offset + 2 + 5 >= Len(data)

\* _decode_proximity_pairing; None when no model name is to be had
DecodeProximityPairing(data, offset) ==
    LET base == offset + 2
        model_id == ByteAt(data, base + 1) * 256 + ByteAt(data, base + 2)
        model_name == ModelName(model_id)
        status_byte == ByteAt(data, base + 3)
        pods_byte == ByteAt(data, base + 4)
        flags_case_byte == ByteAt(data, base + 5)
        flipped == BitSet(status_byte, 2)
        left_nibble == IF flipped THEN LowNibble(pods_byte) ELSE HighNibble(pods_byte)
        right_nibble == IF flipped THEN HighNibble(pods_byte) ELSE LowNibble(pods_byte)
        case_nibble == LowNibble(flags_case_byte)
        charge_flags == HighNibble(flags_case_byte)
    IN  IF model_name = None
        THEN None
        ELSE Some(AirPodsData(NibbleToPercent(left_nibble),
                              NibbleToPercent(right_nibble),
                              NibbleToPercent(case_nibble),
                              LeftCharging(charge_flags, flipped),
                              RightCharging(charge_flags, flipped),
                              BitSet(charge_flags, 4),
                              TheValue(model_name),
                              status_byte))

\* the loop test with the last byte taken for a possible type byte
InLoopToLastByte(data, i) == i < Len(data)

\* _find_proximity_pairing_offset, line 111: while i < len(data) - 1
InLoop(data, i) == i < Len(data) - 1

\* the acceptance test without the check of line 117
AcceptsUnchecked(data, i) ==
    /\ ByteAt(data, i) = PROXIMITY_PAIRING_TYPE
    /\ ByteAt(data, i + 1) \in PAIRING_LENGTHS

\* lines 115-118: the entry at i is a Proximity Pairing record that fits
Accepts(data, i) ==
    /\ ByteAt(data, i) = PROXIMITY_PAIRING_TYPE
    /\ ByteAt(data, i + 1) \in PAIRING_LENGTHS
    /\ i + 2 + ByteAt(data, i + 1) <= Len(data)

\* the step with nothing added at an entry of length zero
NextOffsetStuck(i, msg_len) == i + (IF msg_len > 0 THEN 2 + msg_len ELSE 0)

\* line 120: i += 2 + msg_len if msg_len > 0 else i + 2, in which the
\* conditional expression is the whole right-hand side
NextOffset(i, msg_len) == i + (IF msg_len > 0 THEN 2 + msg_len ELSE i + 2)

\* The state of a call parse_manufacturer_data(company_id, data)
ParserCall(company_id, data) ==
    [company_id |-> company_id, data |-> data, pc |-> "call", i |-> 0,
     visited |-> <<>>, offset |-> None, result |-> None]

\* The state of a call _find_proximity_pairing_offset(data): the scanner
\* is entered directly
ScannerCall(data) ==
    [ParserCall(APPLE_COMPANY_ID, data) EXCEPT !.pc = "scan"]

\* no call has been made
NoCall ==
    [company_id |-> APPLE_COMPANY_ID, data |-> <<>>, pc |-> "idle", i |-> 0,
     visited |-> <<>>, offset |-> None, result |-> None]

programVars == <<state, history, last_notify_time, observers, running, tickerPc,
                 was_connected, checker_running, pollerPc, scanner_running, now,
                 advances, inbox, lastOp, adapterLost, thr>>

\* parse_manufacturer_data, lines 83-93: the two early returns, else the
\* scanner is entered
ParseEnter ==
    /\ parser.pc = "call"
    /\ parser' =
           IF parser.company_id # APPLE_COMPANY_ID
                  \/ Len(parser.data) < MIN_DATA_LENGTH
           THEN [parser EXCEPT !.pc = "done"]
           ELSE [parser EXCEPT !.pc = "scan", !.i = 0]
    /\ UNCHANGED programVars

\* _find_proximity_pairing_offset: the loop test and one pass through the
\* body. A read past the end of data is an IndexError that nothing catches.
ScanStep ==
    /\ parser.pc = "scan"
    /\ LET data == parser.data
           i == parser.i
       IN  parser' =
               IF ~InLoop(data, i)
               THEN [parser EXCEPT !.pc = "done"]
               ELSE IF i + 1 >= Len(data)
               THEN [parser EXCEPT !.pc = "raised"]
               ELSE IF Accepts(data, i)
               THEN [parser EXCEPT !.pc = "decode", !.offset = Some(i),
                                   !.visited = Append(@, i)]
               ELSE [parser EXCEPT !.i = NextOffset(i, ByteAt(data, i + 1)),
                                   !.visited = Append(@, i)]
    /\ UNCHANGED programVars

\* parse_manufacturer_data, lines 97-101: the decoder is called; its
\* IndexError is caught and gives None
ParseDecode ==
    /\ parser.pc = "decode"
    /\ parser' =
           [parser EXCEPT
               !.pc = "done",
               !.result = IF DecodeRaises(parser.data, TheValue(parser.offset))
                          THEN None
                          ELSE DecodeProximityPairing(parser.data,
                                                      TheValue(parser.offset))]
    /\ UNCHANGED programVars

\* n bytes 0x00
Zeros(n) == [k \in 1..n |-> 0]

\* A Proximity Pairing record as the tests build it: type, length, prefix,
\* model id, status, pods byte, flags/case byte, lid counter, padding
Record(len, model_id, status, pods_byte, flags_case) ==
    <<PROXIMITY_PAIRING_TYPE, len, 1, model_id \div 256, model_id % 256,
      status, pods_byte, flags_case, 1>> \o Zeros(len - 7)

\* Model ids put into records: 0x1420, 0x6465 and the unknown 0xFFFF
ModelIds == {5152, 25701, 65535}

\* Status bytes: 0x00, 0x02 (flipped), 0x9C and 0x9E (flipped)
StatusBytes == {0, 2, 156, 158}

\* Pods and flags/case bytes: every pods byte with the flags/case bytes
\* 0x07 and 0x67, and every flags/case byte with the pods byte 0xA5
PodsAndFlags == ((0..255) \X {7, 103}) \cup ({165} \X (0..255))

\* Buffers for the decoder: one record, at offset 0 or behind an entry of
\* two bytes
DecodeBuffers ==
    { pre \o Record(len, m, st, pf[1], pf[2]) :
        pre \in {<<>>, <<3, 0>>}, len \in PAIRING_LENGTHS, m \in ModelIds,
        st \in StatusBytes, pf \in PodsAndFlags }

\* TLV entries buffers for the scanner are built from: an entry of length
\* zero, entries of length 3 and 2 (the second holding the bytes 07 11),
\* and a record of either length
Entries ==
    { <<3, 0>>,
      <<3, 3, 0, 0, 0>>,
      <<3, 2, 7, 17>>,
      Record(17, 5152, 0, 165, 7),
      Record(25, 25701, 156, 69, 164) }

\* What may follow the entries: nothing, a record cut short after 15
\* bytes, three bytes, or a single byte
Tails ==
    { <<>>,
      <<7, 25, 1, 20, 32, 0, 165, 7, 1, 0, 0, 0, 0, 0, 0>>,
      <<7, 25, 1>>,
      <<7>> }

RECURSIVE EntrySequences(_)
EntrySequences(n) ==
    IF n = 0
    THEN {<<>>}
    ELSE LET shorter == EntrySequences(n - 1)
         IN  shorter \cup { b \o e : b \in shorter, e \in Entries }

ScanBuffers == { b \o t : b \in EntrySequences(MaxEntries), t \in Tails }

\* The payload of test_17_byte_packet: 07 11 06 64 65 9c 45 a4 and padding
Packet17 == <<7, 17, 6, 100, 101, 156, 69, 164>> \o Zeros(11)

\* The calls made: Apple's company id with every buffer, another company
\* id (0x1234) with a buffer that holds a record
ParserInputs ==
    ({APPLE_COMPANY_ID} \X (DecodeBuffers \cup ScanBuffers \cup {Packet17}))
        \cup ({4660} \X {Record(25, 5152, 0, 165, 7)})

\* StateManager(), start_timeout_checker(), BLEScanner.start(),
\* BtDeviceChecker.start(): main() up to the creation of the window
InitProgram ==
    /\ state = InitialState
    /\ history = <<>>
    /\ last_notify_time = 0
    /\ observers = <<>>
    /\ running = TRUE
    /\ tickerPc = "test"
    /\ was_connected = FALSE
    /\ checker_running = TRUE
    /\ pollerPc = "idle"
    /\ scanner_running = TRUE
    /\ now = DEBOUNCE_INTERVAL
    /\ advances = 0
    /\ inbox = [o \in Observers |-> None]
    /\ lastOp = Op("init", FALSE, <<>>)
    /\ adapterLost = FALSE
    /\ thr = [t \in Threads |-> IdleThread]

\* the program before any advertisement has been handed to the parser
Init == InitProgram /\ parser = NoCall

\* a call of _find_proximity_pairing_offset
InitScanner ==
    /\ InitProgram
    /\ \E data \in ScanBuffers : parser = ScannerCall(data)

\* a call of parse_manufacturer_data
InitParser ==
    /\ InitProgram
    /\ \E input \in ParserInputs : parser = ParserCall(input[1], input[2])

\* The events of the state machine: advertisements, the adapter signal,
\* the classic poller and the timeout ticker
Machine(readings) ==
    \/ \E data \in readings : Advertisement(data)
    \/ AdapterError
    \/ ScanStart
    \/ PollBegin
    \/ \E name \in {None} \cup {Some(n) : n \in Names} : PollResult(name)
    \/ TimeoutLoopTest
    \/ TimeoutCheck

\* The whole program, every handler run to completion
Next ==
    \/ Machine(OneReading)
    \/ Shutdown
    \/ \E o \in MainObservers : AddObserver(o)
    \/ \E o \in MainObservers : RemoveObserver(o)
    \/ \E d \in Steps : Advance(d, MaxAdvances)

Spec == Init /\ [][Next]_vars

\* The state machine alone: no observer is registered and the program is
\* not shut down
NextMachine ==
    \/ Machine(OneReading)
    \/ \E d \in Steps : Advance(d, MaxMachineAdvances)

SpecMachine == Init /\ [][NextMachine]_vars

\* The state machine fed with differing readings, the clock advanced as in Spec
NextHistory ==
    \/ Machine(Readings)
    \/ \E d \in CoarseSteps : Advance(d, MaxAdvances)

SpecHistory == Init /\ [][NextHistory]_vars

\* The scanner alone, pushing the readings of SmoothReadings
NextSmooth ==
    \/ \E data \in SmoothReadings : Advertisement(data)
    \/ AdapterError
    \/ ScanStart
    \/ \E d \in CoarseSteps : Advance(d, MaxAdvances)

SpecSmooth == Init /\ [][NextSmooth]_vars

\* The ticker, the scanner's events and the shutdown, with the ticker
\* scheduled again and again for as long as it has not returned
NextStop ==
    \/ \E data \in OneReading : Advertisement(data)
    \/ AdapterError
    \/ TimeoutLoopTest
    \/ TimeoutCheck
    \/ Shutdown
    \/ \E d \in Steps : Advance(d, MaxMachineAdvances)

SpecStop ==
    /\ Init
    /\ [][NextStop]_vars
    /\ WF_vars(TimeoutLoopTest)
    /\ WF_vars(TimeoutCheck)

\* The classic poller alone, with callbacks that may raise and checks
\* that may fail
PollNames == {None} \cup {Some(n) : n \in Names}

NextPoller ==
    \/ PollBegin
    \/ \E name \in PollNames : PollResult(name)
    \/ \E name \in PollNames : PollResultRaised(name)
    \/ PollCheckRaised
    \/ \E d \in Steps : Advance(d, MaxMachineAdvances)

SpecPoller == Init /\ [][NextPoller]_vars

\* _find_proximity_pairing_offset applied to each buffer, short ones
\* included, and run for as long as its loop has not ended. It has returned
\* when pc is "done" (not found) or "decode" (an offset, for the caller).
SpecScanner == InitScanner /\ [][ScanStep]_vars /\ WF_vars(ScanStep)

\* parse_manufacturer_data applied to each of the inputs
NextParser ==
    \/ ParseEnter
    \/ ScanStep
    \/ ParseDecode

SpecParser == InitParser /\ [][NextParser]_vars

\* The state machine with two callbacks registered in either order, one
\* of which raises
NextObservers ==
    \/ Machine(OneReading)
    \/ \E o \in Observers : AddObserver(o)
    \/ \E o \in Observers : RemoveObserver(o)
    \/ \E d \in CoarseSteps : Advance(d, MaxAdvances)

SpecObservers == Init /\ [][NextObservers]_vars

\* The three threads interleaved at the granularity of the lock
NextThreads ==
    \/ \E data \in OneReading : LockedUpdateFromAirpods(data)
    \/ LockedSetBluetoothUnavailable
    \/ LockedSetBluetoothAvailable
    \/ PollBegin
    \/ \E name \in {None} \cup {Some(n) : n \in Names} : LockedPollResult(name)
    \/ TimeoutLoopTest
    \/ LockedTimeoutCheck
    \/ LockedMarkDisconnected
    \/ \E t \in Threads : NotifyReadClock(t)
    \/ \E t \in Threads : NotifyLocked(t)
    \/ \E t \in Threads : NotifyDeliver(t)
    \/ \E d \in CoarseSteps : Advance(d, MaxAdvances)

SpecThreads == Init /\ [][NextThreads]_vars

\* The three threads interleaved, with the observer that main registers
\* after the components have been started
NextDelivery ==
    \/ NextThreads
    \/ \E o \in MainObservers : AddObserver(o)

SpecDelivery == Init /\ [][NextDelivery]_vars

-----------------------------------------------------------------------------
(* Properties *)

\* less than 500 ms have passed since the last accepted dispatch
WithinWindow == now - last_notify_time < DEBOUNCE_INTERVAL

\* the operations after which a notification is due
UserVisibleOps ==
    {"update_from_airpods", "timeout", "mark_connected_classic",
     "mark_classic_disconnected", "set_bluetooth_unavailable"}

\* C1: a Connected state carries a reading or a classic device name.
C1_ConnectedCarriesEvidence ==
    state.connection = CONNECTED =>
        (state.airpods # None \/ state.classic_device_name # None)

\* C2: a Disconnected state carries neither a reading nor a classic
\* device name.
C2_DisconnectedCarriesNothing ==
    state.connection = DISCONNECTED =>
        (state.airpods = None /\ state.classic_device_name = None)

\* C2, its case: a state that held a reading and a classic name has been
\* turned Disconnected by the ticker or by the poller
C2_Witness ==
    /\ state.connection = DISCONNECTED
    /\ lastOp.op \in {"timeout", "mark_classic_disconnected"}
    /\ history # <<>>
    /\ state.last_seen > 0

\* C3: the timeout ticker turns a state Disconnected only if that state is
\* Connected, holds a BLE reading and was last seen more than the timeout
\* ago; a state with a classic name and no reading is left alone.
C3_TimeoutOnlyWithReading ==
    [][(TimeoutCheck /\ state'.connection = DISCONNECTED
                     /\ state.connection = CONNECTED)
        => (/\ state.airpods # None
            /\ now - state.last_seen > DISCONNECT_TIMEOUT)]_vars

\* C4: while the classic poller reports presence and the adapter has not
\* been reported unavailable, the state is not Disconnected.
C4_ClassicKeepsConnected ==
    (was_connected /\ ~adapterLost) => state.connection = CONNECTED

\* C6: a state-changing operation other than set_bluetooth_available that
\* runs outside the debounce window delivers the new state to every
\* registered observer.
C6_MutationDispatches ==
    [][(/\ state' # state
        /\ lastOp'.op \in UserVisibleOps
        /\ ~WithinWindow)
        => (/\ lastOp'.dispatched
            /\ \A o \in Observers :
                   IsRegistered(observers, o) => inbox'[o] = Some(state'))]_vars

\* a step in which a StateManager method changed the state
MutationStep == state' # state /\ lastOp'.op \in UserVisibleOps

\* a step in which a dispatch was accepted
DispatchStep == last_notify_time' # last_notify_time

\* C8 as claimed: when a mutation follows a dispatched mutation within the
\* debounce window, the observers that were notified of the first hold the
\* state after the second.
C8_PairCarriesLatest ==
    [][(/\ MutationStep
        /\ lastOp.dispatched
        /\ lastOp.op \in UserVisibleOps
        /\ WithinWindow)
        => \A o \in Observers :
               (IsRegistered(observers, o) /\ inbox[o] = Some(state))
                   => inbox'[o] = Some(state')]_vars

\* C8 as amended: a dispatch delivers the state its mutation installed, and
\* a mutation that follows it within the debounce window is not dispatched:
\* the observers keep what the first mutation delivered.
C8_PairCarriesFirst ==
    [][/\ (MutationStep /\ DispatchStep)
           => \A o \in Observers :
                  IsRegistered(observers, o) => inbox'[o] = Some(state')
       /\ (MutationStep /\ WithinWindow)
           => (~DispatchStep /\ ~lastOp'.dispatched /\ inbox' = inbox)]_vars

\* C8, its case: the second mutation of a pair was suppressed and the
\* observer still holds the state of the first
C8_Witness ==
    /\ lastOp.op \in UserVisibleOps
    /\ ~lastOp.dispatched
    /\ WithinWindow
    /\ IsRegistered(observers, "ui")
    /\ inbox["ui"] # None
    /\ inbox["ui"] # Some(state)

\* C9: once the program is being shut down no observer callback is invoked.
C9_NoDeliveryAfterStop ==
    ~running => lastOp.to = <<>>

\* C10: an advertisement appends the reading to the history and installs a
\* Connected state with the reading smoothed over the new history,
\* last_seen = now, bluetooth_available and the prior classic name.
C10_AdvertisementInstalls ==
    [][\A data \in Readings :
          Advertisement(data) =>
              /\ history' = DequeAppend(history, data)
              /\ history'[Len(history')] = data
              /\ state'.connection = CONNECTED
              /\ state'.airpods = Some(ComputeSmoothedData(history', data))
              /\ state'.last_seen = now
              /\ state'.bluetooth_available
              /\ state'.classic_device_name = state.classic_device_name]_vars

\* C10, its case: an advertisement arrived in a state with a classic name
\* and the smoothed reading differs from the reading just received
C10_Witness ==
    /\ lastOp.op = "update_from_airpods"
    /\ Len(history) >= 2
    /\ state.airpods # Some(history[Len(history)])
    /\ state.classic_device_name # None
    /\ state.last_seen = now

\* C5: the snapshot a thread is about to hand to the observers is the
\* state that thread's own mutation installed.
C5_SnapshotIsInstalled ==
    \A t \in Threads :
        thr[t].pc = "deliver" => thr[t].snapshot = thr[t].installed

\* a step in which thread t's dispatch passes the debounce test
AcceptStep(t) == thr[t].pc = "locked" /\ thr'[t].pc = "deliver"

\* C7: every accepted dispatch sets _last_notify_time at least
\* DEBOUNCE_INTERVAL past the previously accepted one, under every
\* interleaving of the threads.
C7_DispatchesApart ==
    [][/\ \A t \in Threads :
              AcceptStep(t) =>
                  last_notify_time' - last_notify_time >= DEBOUNCE_INTERVAL
       /\ last_notify_time' # last_notify_time =>
              last_notify_time' - last_notify_time >= DEBOUNCE_INTERVAL]_vars

\* C7, its case: two threads hold accepted dispatches taken at different
\* clock readings, and a third call was rejected or is still to be tested
C7_Witness ==
    \E t1, t2 \in Threads :
        /\ t1 # t2
        /\ thr[t1].pc = "deliver"
        /\ thr[t2].pc = "deliver"
        /\ thr[t2].now - thr[t1].now >= DEBOUNCE_INTERVAL
        /\ last_notify_time = thr[t2].now

\* a step in which the poller calls mark_connected_classic(n)
ClassicConnectedStep(n) == PollResult(Some(n)) /\ ~was_connected

\* a step in which the poller calls mark_classic_disconnected()
ClassicDisconnectedStep == PollResult(None) /\ was_connected

\* no observer is called and the debounce timestamp is left alone
NothingDispatched ==
    /\ inbox' = inbox
    /\ last_notify_time' = last_notify_time
    /\ lastOp'.to = <<>>

\* C11: classic-connected(name) changes nothing and notifies nobody when
\* the state is Connected with a reading; otherwise it installs Connected
\* with classic name = name and last_seen = now.
C11_ClassicConnected ==
    [][\A n \in Names :
          ClassicConnectedStep(n) =>
              IF state.connection = CONNECTED /\ state.airpods # None
              THEN state' = state /\ NothingDispatched
              ELSE /\ state'.connection = CONNECTED
                   /\ state'.classic_device_name = Some(n)
                   /\ state'.last_seen = now]_vars

\* C11, its case: classic-connected arrived while a reading was held and
\* was dropped, outside the debounce window, with an observer registered
C11_Witness ==
    /\ lastOp.op = "mark_connected_classic"
    /\ ~lastOp.dispatched
    /\ was_connected
    /\ state.airpods # None
    /\ state.classic_device_name = None
    /\ ~WithinWindow
    /\ IsRegistered(observers, "ui")

\* C12: classic-disconnected with a reading held that was last seen less
\* than the timeout ago clears the classic name and nothing else; the
\* state stays Connected.
C12_FreshReadingKept ==
    [][(/\ ClassicDisconnectedStep
        /\ state.airpods # None
        /\ now - state.last_seen < DISCONNECT_TIMEOUT)
        => (/\ state' = [state EXCEPT !.classic_device_name = None]
            /\ state'.connection = CONNECTED
            /\ state'.airpods = state.airpods
            /\ state'.last_seen = state.last_seen)]_vars

\* C12, its case: classic-disconnected has been handled with a fresh
\* reading held
C12_Witness ==
    /\ lastOp.op = "mark_classic_disconnected"
    /\ ~was_connected
    /\ state.connection = CONNECTED
    /\ state.airpods # None
    /\ state.classic_device_name = None
    /\ now - state.last_seen < DISCONNECT_TIMEOUT
    /\ now > state.last_seen

\* C13: classic-disconnected with no reading held, or with a reading last
\* seen the timeout ago or earlier, installs Disconnected with no reading
\* and no classic name.
C13_StaleOrNoReadingDisconnects ==
    [][(/\ ClassicDisconnectedStep
        /\ (state.airpods = None \/ now - state.last_seen >= DISCONNECT_TIMEOUT))
        => (/\ state'.connection = DISCONNECTED
            /\ state'.airpods = None
            /\ state'.classic_device_name = None)]_vars

\* C13, its case: classic-disconnected was handled exactly the timeout
\* after the state was last seen, advertisements having been received
C13_Witness ==
    /\ lastOp.op = "mark_classic_disconnected"
    /\ ~was_connected
    /\ state.connection = DISCONNECTED
    /\ history # <<>>
    /\ state.last_seen > 0
    /\ now - state.last_seen = DISCONNECT_TIMEOUT

\* C14: adapter-available sets bluetooth_available and leaves connection,
\* reading, last_seen and classic name as they were, notifying nobody.
C14_AvailableChangesFlagOnly ==
    [][ScanStart =>
          /\ state' = [state EXCEPT !.bluetooth_available = TRUE]
          /\ NothingDispatched]_vars

\* C15: adapter-unavailable installs Disconnected with no reading, no
\* classic name and bluetooth_available false, and dispatches that state
\* unless the debounce window is open.
C15_UnavailableForcesDisconnected ==
    [][AdapterError =>
          /\ state'.connection = DISCONNECTED
          /\ state'.airpods = None
          /\ state'.classic_device_name = None
          /\ ~state'.bluetooth_available
          /\ IF WithinWindow
             THEN NothingDispatched
             ELSE /\ last_notify_time' = now
                  /\ lastOp'.to = observers
                  /\ \A o \in Observers :
                         IsRegistered(observers, o) => inbox'[o] = Some(state')]_vars

\* C15, its case: adapter-unavailable hit a Connected state with a reading
\* and a classic name, and the observer received the resulting state
C15_Witness ==
    /\ lastOp.op = "set_bluetooth_unavailable"
    /\ lastOp.to = <<"ui">>
    /\ history # <<>>
    /\ was_connected
    /\ inbox["ui"] = Some(state)
    /\ state.connection = DISCONNECTED
    /\ ~state.bluetooth_available

\* C16: a mutation made inside the debounce window installs its state,
\* which a read of StateManager.state then returns, and calls no observer.
C16_SuppressedMutationStillHeld ==
    [][/\ \A data \in Readings :
              (Advertisement(data) /\ WithinWindow) =>
                  /\ state'.connection = CONNECTED
                  /\ state'.airpods # None
                  /\ state'.last_seen = now
                  /\ NothingDispatched
       /\ (AdapterError /\ WithinWindow) =>
              /\ state'.connection = DISCONNECTED
              /\ ~state'.bluetooth_available
              /\ NothingDispatched
       /\ \A n \in Names :
              (ClassicConnectedStep(n) /\ WithinWindow /\ state.airpods = None) =>
                  /\ state'.classic_device_name = Some(n)
                  /\ NothingDispatched]_vars

\* C16, its case: an advertisement arrived inside the window; the held
\* state is the new one and the observer still has the older snapshot
C16_Witness ==
    /\ lastOp.op = "update_from_airpods"
    /\ ~lastOp.dispatched
    /\ WithinWindow
    /\ state.airpods # None
    /\ state.last_seen = now
    /\ IsRegistered(observers, "ui")
    /\ inbox["ui"] # None
    /\ inbox["ui"] # Some(state)

\* C17: when a callback raises during a dispatch, every other registered
\* observer still receives the snapshot of that dispatch, which is the
\* state the call installed, and the call completes.
C17_ObserverFailureIsolated ==
    [][(DispatchStep /\ \E i \in DOMAIN observers : observers[i] \in Raising)
        => (/\ \A o \in Observers \ Raising :
                   IsRegistered(observers, o) => inbox'[o] = Some(state')
            /\ lastOp'.to = observers
            /\ last_notify_time' = now)]_vars

\* C17, its case: a dispatch in which the raising callback was called
\* before the other one, which has the snapshot
C17_Witness ==
    /\ lastOp.dispatched
    /\ lastOp.to = <<"aux", "ui">>
    /\ lastOp.op = "update_from_airpods"
    /\ inbox["ui"] = Some(state)
    /\ state.airpods # None

\* C18: the history never holds more than HISTORY_MAXLEN (5) readings;
\* recording into a full history drops the oldest and keeps the others in
\* insertion order, the new one last.
C18_HistoryBoundedFifo ==
    /\ [](Len(history) <= HISTORY_MAXLEN)
    /\ [][\A data \in SmoothReadings :
             Advertisement(data) =>
                 /\ Len(history) < HISTORY_MAXLEN => history' = history \o <<data>>
                 /\ Len(history) = HISTORY_MAXLEN =>
                        history' = SubSeq(history, 2, HISTORY_MAXLEN) \o <<data>>]_vars

\* C18, its case: a full history of three distinguishable readings with
\* the newest one last
C18_Witness ==
    /\ Len(history) = HISTORY_MAXLEN
    /\ lastOp.op = "update_from_airpods"
    /\ history[1] # history[2]
    /\ history[2] # history[HISTORY_MAXLEN]
    /\ history[1] # history[HISTORY_MAXLEN]
    /\ TheValue(state.airpods).raw_status = history[HISTORY_MAXLEN].raw_status

BatteryFields == {"left_battery", "right_battery", "case_battery"}

ChargingFields == {"left_charging", "right_charging", "case_charging"}

\* the history holds a value for the field at position i
Present(attr, i) ==
    IF attr \in BatteryFields THEN history[i][attr] # None ELSE TRUE

\* how often the history holds v in the field
Occurrences(attr, v) ==
    Cardinality({i \in DOMAIN history : history[i][attr] = v})

\* v is held in the field, and no value is held there more often
MostFrequent(attr, v) ==
    /\ \E i \in DOMAIN history : Present(attr, i) /\ history[i][attr] = v
    /\ \A i \in DOMAIN history :
           Present(attr, i) => Occurrences(attr, history[i][attr]) <= Occurrences(attr, v)

\* the positions of the first and of the last occurrence of v in the field
FirstIndex(attr, v) ==
    CHOOSE i \in DOMAIN history :
        /\ history[i][attr] = v
        /\ \A j \in DOMAIN history : history[j][attr] = v => i <= j

LastIndex(attr, v) ==
    CHOOSE i \in DOMAIN history :
        /\ history[i][attr] = v
        /\ \A j \in DOMAIN history : history[j][attr] = v => j <= i

\* the values tied with v for the highest count
Tied(attr, v) ==
    { history[i][attr] : i \in { j \in DOMAIN history :
          Present(attr, j) /\ Occurrences(attr, history[j][attr]) = Occurrences(attr, v) } }

\* C19: each of the six smoothed fields holds a most frequent value among
\* the non-null values of that field in the history; a battery field that
\* is null in every held reading is null in the smoothed reading.
C19_SmoothedIsMostFrequent ==
    state.airpods # None =>
        LET sm == TheValue(state.airpods)
        IN  /\ \A f \in BatteryFields :
                   IF \A i \in DOMAIN history : history[i][f] = None
                   THEN sm[f] = None
                   ELSE sm[f] # None /\ MostFrequent(f, sm[f])
            /\ \A f \in ChargingFields : MostFrequent(f, sm[f])

\* C19, its case: left levels 50, 50, 60, 50, 70 smooth to 50, and a right
\* level missing from the readings held is missing from the smoothed one
C19_Witness ==
    /\ Len(history) = HISTORY_MAXLEN
    /\ [i \in DOMAIN history |-> history[i].left_battery]
           = <<Some(50), Some(50), Some(60), Some(50), Some(70)>>
    /\ state.airpods # None
    /\ TheValue(state.airpods).left_battery = Some(50)

\* C20 as claimed: among values tied for the highest count the smoothed
\* value is the one that is first to reach that count when the history is
\* read in insertion order, i.e. the one whose last occurrence is earliest.
C20_TieFirstToReach ==
    state.airpods # None =>
        LET sm == TheValue(state.airpods)
        IN  \A f \in BatteryFields \cup ChargingFields :
                (\E i \in DOMAIN history : Present(f, i)) =>
                    \A w \in Tied(f, sm[f]) : LastIndex(f, sm[f]) <= LastIndex(f, w)

\* C20, amended: among values tied for the highest count the smoothed value
\* is the one whose first occurrence in the history is earliest.
C20_TieFirstSeen ==
    state.airpods # None =>
        LET sm == TheValue(state.airpods)
        IN  \A f \in BatteryFields \cup ChargingFields :
                (\E i \in DOMAIN history : Present(f, i)) =>
                    /\ MostFrequent(f, sm[f])
                    /\ \A w \in Tied(f, sm[f]) : FirstIndex(f, sm[f]) <= FirstIndex(f, w)

\* C20, its case: left levels 50, 60, 60, 50 tie two to two; 60 is first
\* to reach two, 50 is seen first, and 50 is the smoothed value
C20_Witness ==
    /\ [i \in DOMAIN history |-> history[i].left_battery]
           = <<Some(50), Some(60), Some(60), Some(50)>>
    /\ state.airpods # None
    /\ TheValue(state.airpods).left_battery = Some(50)

\* C21: the model label and the raw status byte of the smoothed reading
\* are those of the reading recorded last.
C21_LabelAndStatusFromLatest ==
    state.airpods # None =>
        /\ TheValue(state.airpods).model = history[Len(history)].model
        /\ TheValue(state.airpods).raw_status = history[Len(history)].raw_status

\* C21, its case: the reading recorded last differs in label and status
\* from all the older ones held
C21_Witness ==
    /\ Len(history) = HISTORY_MAXLEN
    /\ state.airpods # None
    /\ \A i \in 1..(HISTORY_MAXLEN - 1) :
           /\ history[i].model # history[HISTORY_MAXLEN].model
           /\ history[i].raw_status # history[HISTORY_MAXLEN].raw_status
    /\ TheValue(state.airpods).model = "AirPods Pro 2"

\* the call has returned
Returned == parser.pc = "done"

\* the bytes of the record the scanner found, counted from its type byte
RecordByte(k) == ByteAt(parser.data, TheValue(parser.offset) + k)

\* the model id of the record the scanner found
FoundModelId == RecordByte(3) * 256 + RecordByte(4)

C23_UnknownModelRejected ==
    (/\ Returned
     /\ parser.company_id = APPLE_COMPANY_ID
     /\ parser.data = Record(25, 65535, 0, 165, 7))
    => parser.result = None

\* C24: parse_manufacturer_data never raises; it returns None or a
\* reading, and None for another company id, for fewer than 15 bytes and
\* when the scanner finds no record.
C24_NoneNeverRaises ==
    /\ parser.pc # "raised"
    /\ Returned =>
           /\ parser.result = None \/ Len(parser.result) = 1
           /\ (\/ parser.company_id # APPLE_COMPANY_ID
               \/ Len(parser.data) < MIN_DATA_LENGTH
               \/ parser.offset = None) => parser.result = None

\* C24, its case: the scanner has walked a buffer of 15 bytes or more to
\* its last byte without finding a record
C24_Witness ==
    /\ Returned
    /\ parser.company_id = APPLE_COMPANY_ID
    /\ Len(parser.data) >= MIN_DATA_LENGTH
    /\ parser.offset = None
    /\ parser.result = None
    /\ parser.i = Len(parser.data) - 1

\* the percentage a battery nibble stands for
Percent(n) == IF n <= 10 THEN Some(n * 10) ELSE None

\* the flipped bit of the record the scanner found
FoundFlipped == (RecordByte(5) \div 2) % 2 = 1

\* C25: a nibble n of 0..10 gives n*10 and a nibble above 10 gives no
\* value, for the left, right and case battery of every decoded reading.
C25_NibbleToPercent ==
    (Returned /\ parser.result # None) =>
        LET hi == RecordByte(6) \div 16
            lo == RecordByte(6) % 16
            r == TheValue(parser.result)
        IN  /\ r.left_battery = Percent(IF FoundFlipped THEN lo ELSE hi)
            /\ r.right_battery = Percent(IF FoundFlipped THEN hi ELSE lo)
            /\ r.case_battery = Percent(RecordByte(7) % 16)

\* C25, its case: a pods byte 0xB5 decoded: 11 gives no value, 5 gives 50
C25_Witness ==
    /\ Returned
    /\ parser.result # None
    /\ RecordByte(6) = 181
    /\ ~FoundFlipped
    /\ TheValue(parser.result).left_battery = None
    /\ TheValue(parser.result).right_battery = Some(50)

\* the buffer of the call with the flipped bit of the found record cleared
UnflippedData ==
    [parser.data EXCEPT ![TheValue(parser.offset) + 5 + 1] = @ - 2]

TlvNext(i, msg_len) == IF msg_len > 0 THEN i + 2 + msg_len ELSE i + 2

\* the entry at i is a Proximity Pairing record of length 0x11 or 0x19 that
\* lies inside the buffer
Satisfies(data, i) ==
    /\ data[i + 1] = 7
    /\ data[i + 2] \in {17, 25}
    /\ i + 2 + data[i + 2] <= Len(data)

\* the first position the TLV walk from i visits that satisfies the three
\* conditions, if there is one
RECURSIVE TlvWalkFirst(_, _)
TlvWalkFirst(data, i) ==
    IF i >= Len(data) - 1 THEN None
    ELSE IF Satisfies(data, i) THEN Some(i)
    ELSE TlvWalkFirst(data, TlvNext(i, data[i + 2]))

\* C27: an offset o the scanner returns has data[o] = 0x07, data[o+1] in
\* {0x11, 0x19} and o + 2 + data[o+1] <= len(data), and is the first
\* position the TLV walk from 0 visits that satisfies these conditions.
C27_ScannerReturnsFirstRecord ==
    parser.offset # None =>
        /\ Satisfies(parser.data, TheValue(parser.offset))
        /\ parser.offset = TlvWalkFirst(parser.data, 0)

\* C28: the walk goes from an entry at i that is not accepted to
\* i + 2 + length, and to i + 2 when the length byte is 0.
C28_WalkAdvance ==
    [][(parser.pc = "scan" /\ parser'.pc = "scan") =>
          parser'.i = TlvNext(parser.i, ByteAt(parser.data, parser.i + 1))]_vars

\* C29: the ticker does not turn a Connected state Disconnected when that
\* state was last seen less than the timeout ago.
C29_TickerDisconnectsStaleOnly ==
    [][(/\ LockedMarkDisconnected
        /\ state.connection = CONNECTED
        /\ state'.connection = DISCONNECTED)
        => now - state.last_seen >= DISCONNECT_TIMEOUT]_vars

\* the observer holds a snapshot other than the held state
Suppressed ==
    /\ IsRegistered(observers, "ui")
    /\ inbox["ui"] # None
    /\ inbox["ui"] # Some(state)

\* a step that is not an event: the clock, or the ticker and the poller
\* going round their loops
QuietStep ==
    \/ \E d \in Steps : Advance(d, MaxAdvances)
    \/ TimeoutLoopTest
    \/ TimeoutCheck
    \/ PollBegin

\* C30: while the held state differs from the snapshot last delivered, no
\* step other than an event delivers the held state; when it is a
\* Disconnected state, the observer's snapshot stays as it is for as long
\* as no event arrives.
C30_SuppressedStateNeverFlushed ==
    [][(Suppressed /\ QuietStep) =>
          /\ inbox'["ui"] # Some(state)
          /\ state.connection = DISCONNECTED => (Suppressed' /\ inbox' = inbox)]_vars

\* C30, its case: the adapter was lost inside the debounce window; the
\* window has long closed, and the observer still holds the earlier
\* Connected snapshot
C30_Witness ==
    /\ Suppressed
    /\ lastOp.op = "set_bluetooth_unavailable"
    /\ ~lastOp.dispatched
    /\ state.connection = DISCONNECTED
    /\ TheValue(inbox["ui"]).connection = CONNECTED
    /\ now - last_notify_time > DISCONNECT_TIMEOUT

\* C31: a disconnect request that finds the state Disconnected with no
\* classic name installs no state and makes no call to the observers.
C31_RedundantDisconnectIsNoOp ==
    [][(/\ LockedMarkDisconnected
        /\ state.connection = DISCONNECTED
        /\ state.classic_device_name = None)
        => (/\ state' = state
            /\ thr'["ticker"].pc = "idle"
            /\ thr'["ticker"].installed = None
            /\ inbox' = inbox
            /\ last_notify_time' = last_notify_time)]_vars

\* C31, its case: the ticker asked for a disconnect, another thread
\* disconnected first, and the ticker's mark_disconnected returned early
C31_Witness ==
    /\ thr["ticker"].pc = "idle"
    /\ thr["ticker"].op = "timeout_returned"
    /\ tickerPc = "test"
    /\ state.connection = DISCONNECTED
    /\ state.classic_device_name = None

\* C32: once stop() has been called the ticker makes a timeout check only
\* if it was already asleep, goes from the loop test out of the loop, stays
\* out, and does get out.
C32_TickerStopsAfterOneCheck ==
    /\ [][(~running /\ tickerPc = "test") => tickerPc' \in {"test", "done"}]_vars
    /\ [][tickerPc = "done" => tickerPc' = "done"]_vars
    /\ [][(~running /\ TimeoutCheck) => (tickerPc = "sleep" /\ tickerPc' = "test")]_vars
    /\ [](~running => <>(tickerPc = "done"))

\* C32, its case: stop() came while the ticker was asleep; it made its one
\* check and left the loop
C32_Witness ==
    /\ ~running
    /\ tickerPc = "done"
    /\ lastOp.op \in {"timeout", "timeout_check"}

\* some position of the buffer holds 0x07, then 0x11 or 0x19, with room
\* for that many bytes after it
HoldsRecord(data) ==
    \E k \in 0..(Len(data) - 2) : Satisfies(data, k)

LabelOf(id) ==
    IF id \in DOMAIN KNOWN_APPLE_MODELS THEN KNOWN_APPLE_MODELS[id] ELSE "AirPods"

\* C34: for a record found at offset o with the flipped bit clear, left
\* is the percent of the high nibble of data[o+6], right that of its low
\* nibble, case that of the low nibble of data[o+7], raw status is
\* data[o+5] and the model is the label of the 16-bit big-endian value
\* data[o+3..o+4], for records of length 0x19 and 0x11.
C34_UnflippedFieldLayout ==
    (Returned /\ parser.offset # None /\ ~FoundFlipped) =>
        /\ parser.result # None
        /\ LET r == TheValue(parser.result)
           IN  /\ r.left_battery = Percent(RecordByte(6) \div 16)
               /\ r.right_battery = Percent(RecordByte(6) % 16)
               /\ r.case_battery = Percent(RecordByte(7) % 16)
               /\ r.raw_status = RecordByte(5)
               /\ r.model = LabelOf(FoundModelId)

\* C34, its case: the 17-byte packet 07 11 06 64 65 9c 45 a4 decoded
C34_Witness ==
    /\ Returned
    /\ parser.data = Packet17
    /\ parser.result # None
    /\ TheValue(parser.result).model = "AirPods Pro"
    /\ TheValue(parser.result).left_battery = Some(40)
    /\ TheValue(parser.result).right_battery = Some(50)
    /\ TheValue(parser.result).case_battery = Some(40)
    /\ TheValue(parser.result).raw_status = 156

\* the charge-flag nibble of the record the scanner found
FoundChargeFlags == RecordByte(7) \div 16

\* C35: with the flipped bit clear, left charging is bit 0x02 of the
\* charge flags, right charging bit 0x01 and case charging bit 0x04.
C35_UnflippedChargeFlags ==
    (Returned /\ parser.result # None /\ ~FoundFlipped) =>
        LET r == TheValue(parser.result)
        IN  /\ r.left_charging = ((FoundChargeFlags \div 2) % 2 = 1)
            /\ r.right_charging = (FoundChargeFlags % 2 = 1)
            /\ r.case_charging = ((FoundChargeFlags \div 4) % 2 = 1)

\* C35, its case: flags/case byte 0x67 decoded, charge flags 0x6: left and
\* case charging, right not
C35_Witness ==
    /\ Returned
    /\ parser.result # None
    /\ ~FoundFlipped
    /\ RecordByte(7) = 103
    /\ TheValue(parser.result).left_charging
    /\ ~TheValue(parser.result).right_charging
    /\ TheValue(parser.result).case_charging

\* C40: for an offset o the scanner returns, the bytes o+3 .. o+7 the
\* decoder reads are inside the buffer, and the call returns a reading,
\* not the None of the decoder's IndexError.
C40_DecoderReadsInBounds ==
    parser.offset # None =>
        /\ TheValue(parser.offset) + 7 <= Len(parser.data) - 1
        /\ Returned => parser.result # None

\* C40, its case: a record that is not at offset 0 and ends with the
\* buffer has been decoded
C40_Witness ==
    /\ Returned
    /\ parser.offset # None
    /\ TheValue(parser.offset) > 0
    /\ TheValue(parser.offset) + 2 + RecordByte(1) = Len(parser.data)
    /\ parser.result # None

\* a step that ends in a state without a reading: the silence timeout,
\* the classic disconnect and the adapter error end so
EndsWithoutReading == state'.airpods = None

\* the first advertisement after a disconnect
FirstAfterDisconnect ==
    /\ state.airpods = None
    /\ state'.airpods # None
    /\ history # <<>>

\* C36: no disconnect transition (silence timeout, classic-disconnected,
\* adapter-unavailable) removes anything from the history, and the first
\* advertisement after a disconnect is smoothed over the readings recorded
\* before it (the last 4 when there are 5) and the new one.
C36_DisconnectKeepsHistory ==
    /\ [][EndsWithoutReading => history' = history]_vars
    /\ [][FirstAfterDisconnect =>
            \E data \in Readings :
                /\ history' = DequeAppend(history, data)
                /\ Len(history') = IF Len(history) < HISTORY_MAXLEN
                                   THEN Len(history) + 1 ELSE HISTORY_MAXLEN
                /\ \A k \in 1 .. Len(history') - 1 :
                       history'[k] = history[Len(history) - (Len(history') - 1) + k]
                /\ state'.airpods = Some(ComputeSmoothedData(history', data))]_vars

\* C36, its case: the silence timeout has disconnected a device whose
\* history was full, with differing readings, and the history is as it was
C36_Witness ==
    /\ lastOp.op = "timeout"
    /\ state.connection = DISCONNECTED
    /\ state.airpods = None
    /\ Len(history) = HISTORY_MAXLEN
    /\ history[1] # history[HISTORY_MAXLEN]

\* an advertisement has been taken in
AdvertisementStep ==
    /\ lastOp'.op = "update_from_airpods"
    /\ (lastOp' # lastOp \/ state' # state \/ history' # history)

\* C38: in every reachable state a reading is held only while Connected,
\* and last-seen is then the time of the most recent advertisement: an
\* advertisement sets it to the clock, and no other event (classic
\* connected, classic disconnected, adapter available) changes it while a
\* reading is held.
C38_ReadingImpliesConnectedAndSeen ==
    /\ [](state.airpods # None =>
            (state.connection = CONNECTED /\ state.last_seen > 0
             /\ state.last_seen <= now))
    /\ [][AdvertisementStep => state'.last_seen = now]_vars
    /\ [][(state.airpods # None /\ state'.airpods # None
           /\ ~AdvertisementStep) => state'.last_seen = state.last_seen]_vars

\* C38, its case: the adapter came back while a reading was held, later
\* than the advertisement
C38_Witness ==
    /\ lastOp.op = "set_bluetooth_available"
    /\ state.airpods # None
    /\ state.connection = CONNECTED
    /\ state.last_seen < now

\* the poller's calls of on_connected and of on_disconnected, as lastOp
\* records them
ConnectedOps == {"mark_connected_classic", "on_connected_raised"}
DisconnectedOps == {"mark_classic_disconnected", "on_disconnected_raised"}

\* a poll ends with a callback made
PollEmits(ops) ==
    /\ pollerPc = "polling"
    /\ pollerPc' = "idle"
    /\ lastOp'.op \in ops
    /\ (lastOp' # lastOp \/ state' # state \/ was_connected' # was_connected)

\* C39: the classic poller is edge-triggered: on_connected and
\* on_disconnected are emitted strictly alternating, starting with
\* on_connected, and a poll emits exactly when its presence result differs
\* from the presence last emitted (absent, before any emission), so
\* consecutive polls with the same result emit nothing; this also when a
\* callback raised.
C39_PollerEdgeTriggered ==
    /\ [][PollEmits(ConnectedOps) => lastOp.op \notin ConnectedOps]_vars
    /\ [][PollEmits(DisconnectedOps) => lastOp.op \in ConnectedOps]_vars
    /\ [][\A name \in PollNames :
            (PollResult(name) \/ PollResultRaised(name)) =>
                ((PollEmits(ConnectedOps) \/ PollEmits(DisconnectedOps))
                 <=> ((name # None) # (lastOp.op \in ConnectedOps)))]_vars

\* C39, its case: on_connected was emitted, then on_disconnected, whose
\* callback raised: the state still shows the classic device and the
\* poller holds the device as absent
C39_Witness ==
    /\ lastOp.op = "on_disconnected_raised"
    /\ ~was_connected
    /\ pollerPc = "idle"
    /\ state.connection = CONNECTED
    /\ state.classic_device_name # None

\* thread t is about to deliver to "ui" a snapshot taken before the last
\* one that was taken, while the later one, of another state, has already
\* been delivered: no other thread is between its snapshot and its callbacks
DeliversOlderAfterNewer(t) ==
    /\ thr[t].pc = "deliver"
    /\ thr'[t].pc = "idle"
    /\ IsRegistered(thr[t].observers, "ui")
    /\ thr[t].now < last_notify_time
    /\ \A u \in Threads \ {t} : thr[u].pc # "deliver"
    /\ inbox["ui"] # None
    /\ inbox["ui"] # thr[t].snapshot
    /\ inbox'["ui"] = thr[t].snapshot

\* C37: under concurrent mutations from different threads an observer
\* receives snapshots in the order in which the states were installed: a
\* snapshot of an older state is never delivered after one of a newer state.
C37_SnapshotsDeliveredInOrder ==
    [][\A t \in Threads : ~DeliversOlderAfterNewer(t)]_vars

=============================================================================
